---- MODULE Spec2Model ----
(***************************************************************************)
(* mtg-hash: chunked incremental MD5 hashing of browser files.             *)
(*                                                                         *)
(* The model follows src/src/index.ts: createChunks, singleThreadHash,     *)
(* multiThreadHash (a pool of Web Workers that read chunks), calculateHash *)
(* (mode selection) and calculateAllHashes (p-limit bounded batch).        *)
(*                                                                         *)
(* One step of the model is one macrotask of the main thread: a call of an *)
(* exported function, a FileReader event, a worker message or a worker     *)
(* error event, together with every microtask (promise continuation) it    *)
(* triggers.                                                               *)
(*                                                                         *)
(* Bytes are symbolic: a buffer is the byte range of its source file, and  *)
(* the digest is an injective function of the concatenated byte stream.    *)
(***************************************************************************)
EXTENDS Integers, Sequences, FiniteSets, TLC

\* ------------------------------------------------------------------ bounds
\* calculateAllHashes inputs
MaxFiles == 2
MaxBatchChunks == 3
\* direct runner calls
MaxDirectSize == 4
MaxDirectHardwareConcurrency == 3

\* --------------------------------------------------------- program constants
\* JavaScript `undefined` for an optional numeric option.
undefined == -1

DefaultChunkSize == 10 * 1024 * 1024
DefaultUseWorkerThreshold == 10 * 1024 * 1024
NoTask == -1
NoIndex == -1

FileNames == {"a", "b"}

\* A value that is not an instance of File (fails `f instanceof File`).
NotAFile == [isFile |-> FALSE, name |-> "", size |-> 0]

FileSizes == (0..MaxBatchChunks) \cup {DefaultUseWorkerThreshold - 1, DefaultUseWorkerThreshold}

Files == [isFile : {TRUE}, name : FileNames, size : FileSizes]

VARIABLES
  files,                 \* the File[] argument (or the single source of the direct calls)
  isArray,               \* Array.isArray(files)
  options,               \* chunkSize, useWorkerThreshold, maxConcurrency
  hardwareConcurrency,   \* navigator.hardwareConcurrency (0: undefined)
  run,                   \* one record per runner invocation (closure state and promise)
  batchPromise,          \* the promise returned by calculateAllHashes
  results,               \* the HashResult[] it resolves with
  limiter,               \* p-limit state: queue and activeCount
  tasks,                 \* settled value of each limiter task
  settleOrder,           \* task indices in the order they settled
  startOrder,            \* task indices in the order they were admitted
  progressMap,           \* file name -> last reported current
  totalProcessedChunks,
  totalChunks,
  fileLog,               \* onFileProgress events
  totalLog               \* onTotalProgress events

vars == <<files, isArray, options, hardwareConcurrency, run, batchPromise, results,
          limiter, tasks, settleOrder, startOrder, progressMap, totalProcessedChunks,
          totalChunks, fileLog, totalLog>>

inputVars == <<files, isArray, options, hardwareConcurrency>>
progressVars == <<progressMap, totalProcessedChunks, fileLog, totalLog>>
schedulerVars == <<batchPromise, results, limiter, tasks, settleOrder, startOrder>>

\* ------------------------------------------------------------ pure helpers
Min(a, b) == IF a <= b THEN a ELSE b

\* a || b on numbers: undefined and 0 are falsy.
OrElse(a, b) == IF a = undefined \/ a = 0 THEN b ELSE a

\* Destructuring default `x = d`: only undefined takes the default.
Default(a, d) == IF a = undefined THEN d ELSE a

\* Math.ceil(a / b) for a >= 0, b > 0.
Ceil(a, b) == (a + b - 1) \div b

\* (num / den * 100).toFixed(1), as a count of tenths: "100.0" is 1000.
\* toFixed rounds the magnitude half up and keeps the sign.
toFixed1(num, den) ==
  IF den = 0 THEN 0
  ELSE IF num >= 0 THEN (2000 * num + den) \div (2 * den)
       ELSE 0 - ((2000 * (0 - num) + den) \div (2 * den))

\* Variant: the end of a slice is not clamped to the file size.
RECURSIVE chunkLoopUnclamped(_, _, _, _)
chunkLoopUnclamped(fileIdx, file, chunkSize, i) ==
  IF i < file.size
  THEN <<[file |-> fileIdx, fileId |-> file.name, start |-> i, end |-> i + chunkSize]>>
       \o chunkLoopUnclamped(fileIdx, file, chunkSize, i + chunkSize)
  ELSE <<>>

\* createChunks: slices [i, min(i + chunkSize, size)) for i = 0, chunkSize, ...
RECURSIVE chunkLoop(_, _, _, _)
chunkLoop(fileIdx, file, chunkSize, i) ==
  IF i < file.size
  THEN <<[file |-> fileIdx, fileId |-> file.name, start |-> i,
          end |-> Min(i + chunkSize, file.size)]>>
       \o chunkLoop(fileIdx, file, chunkSize, i + chunkSize)
  ELSE <<>>

createChunks(fileIdx, file, chunkSize) == chunkLoop(fileIdx, file, chunkSize, 0)

\* The bytes a chunk materialises to (FileReader.readAsArrayBuffer, or
\* fetch(url).arrayBuffer() in a worker): the byte range of the source.
arrayBuffer(chunk) == [file |-> chunk.file, from |-> chunk.start, to |-> chunk.end]

NoBuffer == [file |-> 0, from |-> 0, to |-> 0]

\* SparkMD5.ArrayBuffer: append concatenates bytes; two adjacent ranges of
\* one file are the same bytes as their union.
sparkAppend(state, buffer) ==
  IF buffer.from = buffer.to THEN state
  ELSE IF state # <<>> /\ state[Len(state)].file = buffer.file
                       /\ state[Len(state)].to = buffer.from
       THEN [state EXCEPT ![Len(state)].to = buffer.to]
       ELSE Append(state, buffer)

\* spark.end(): the hex digest of the bytes appended so far.
sparkEnd(state) == [alg |-> "md5", bytes |-> state]

NoDigest == [alg |-> "none", bytes |-> <<>>]
NoError == [kind |-> "none", message |-> "", index |-> NoIndex]

\* new Error(`...`) values of multiThreadHash; index is the chunk index the
\* message text contains, NoIndex when the text contains none.
ChunkError(message) == [kind |-> "ChunkProcessingError", message |-> message, index |-> NoIndex]
EmptyChunkError(index) == [kind |-> "EmptyChunkData", message |-> "", index |-> index]
WorkerError(message) == [kind |-> "WorkerError", message |-> message, index |-> NoIndex]

ProgressData(name, current, total) ==
  [name |-> name, current |-> current, total |-> total, percent |-> toFixed1(current, total)]

\* --------------------------------------------------------- runner closures
\* The closure state of one singleThreadHash / multiThreadHash invocation
\* together with the promise it returned.
IdleRunner ==
  [kind |-> "none", inBatch |-> FALSE, file |-> 0, fileName |-> "", chunks |-> <<>>,
   spark |-> <<>>, appended |-> <<>>, ended |-> 0,
   i |-> 0, reader |-> "idle",
   workers |-> <<>>, currentIndex |-> 0, processedChunks |-> 0, lastIndex |-> NoIndex,
   dispatched |-> <<>>, reading |-> <<>>,
   promise |-> "pending", digest |-> NoDigest, error |-> NoError, events |-> <<>>]

\* resolve / reject of a promise: only the first settlement has an effect.
resolve(rn, digest) ==
  IF rn.promise = "pending" THEN [rn EXCEPT !.promise = "resolved", !.digest = digest] ELSE rn

reject(rn, error) ==
  IF rn.promise = "pending" THEN [rn EXCEPT !.promise = "rejected", !.error = error] ELSE rn

\* spark.append(buffer)
append(rn, buffer) ==
  [rn EXCEPT !.spark = sparkAppend(@, buffer), !.appended = Append(@, buffer)]

\* Variant: the event reports the count before the chunk was folded.
onProgressStale(rn, current) ==
  [rn EXCEPT !.events = Append(@, ProgressData(rn.fileName, current - 1, Len(rn.chunks)))]

\* onProgress?.({current, total, percent, name})
onProgress(rn, current) ==
  [rn EXCEPT !.events = Append(@, ProgressData(rn.fileName, current, Len(rn.chunks)))]

\* resolve(spark.end()) / return spark.end()
finish(rn) == resolve([rn EXCEPT !.ended = @ + 1], sparkEnd(rn.spark))

\* reader.readAsArrayBuffer(chunks[i]); reading keeps the indices of the
\* reads started so far.
readAsArrayBuffer(rn) == [rn EXCEPT !.reader = "loading", !.reading = Append(@, rn.i)]

\* singleThreadHash up to its first await: the loop either starts the read of
\* chunk 0 or, for no chunks, returns spark.end() at once.
singleThreadHash(fileIdx, chunks, fileName, inBatch) ==
  LET rn == [IdleRunner EXCEPT !.kind = "single", !.inBatch = inBatch, !.file = fileIdx,
                               !.fileName = fileName, !.chunks = chunks]
  IN IF 0 < Len(chunks) THEN readAsArrayBuffer(rn) ELSE finish(rn)

\* Variant: the read of the next chunk starts before the progress event of
\* the chunk just appended is emitted.
onloadReadFirst(rn) ==
  LET r1 == append(rn, arrayBuffer(rn.chunks[rn.i + 1]))
      r2 == [r1 EXCEPT !.i = @ + 1]
  IN IF r2.i < Len(r2.chunks) THEN readAsArrayBuffer(r2)
     ELSE finish(onProgress([r2 EXCEPT !.reader = "idle"], r2.i))

\* reader.onload of the read of chunks[i]: the loop body after the await and
\* the next iteration up to its await.
onload(rn) ==
  LET r1 == append(rn, arrayBuffer(rn.chunks[rn.i + 1]))
      r2 == onProgress(r1, rn.i + 1)
      r3 == [r2 EXCEPT !.i = @ + 1]
  IN IF r3.i < Len(r3.chunks) THEN readAsArrayBuffer(r3)
     ELSE finish([r3 EXCEPT !.reader = "idle"])

\* The read fails: FileReader fires only error/loadend, no handler is set,
\* the awaited promise is never settled.
onreaderror(rn) == [rn EXCEPT !.reader = "failed"]

\* Variant: the pool is left running.
terminateNone(workers) == workers

\* workers.forEach(w => w.terminate())
terminateAll(workers) == [k \in 1..Len(workers) |-> [workers[k] EXCEPT !.terminated = TRUE]]

\* Variant: the cursor is not advanced after the assignment.
dispatchNoAdvance(rn, w) ==
  [rn EXCEPT !.workers[w].task = rn.currentIndex,
             !.dispatched = Append(@, rn.currentIndex)]

\* worker.postMessage({index: currentIndex, url}); currentIndex++
\* dispatched keeps the indices posted so far.
dispatch(rn, w) ==
  [rn EXCEPT !.workers[w].task = rn.currentIndex,
             !.dispatched = Append(@, rn.currentIndex),
             !.currentIndex = @ + 1]

\* The initialisation loop of multiThreadHash, iterations i..workerCount-1.
RECURSIVE initLoop(_, _, _)
initLoop(rn, i, workerCount) ==
  IF i < workerCount
  THEN LET r1 == [rn EXCEPT !.workers = Append(@, [terminated |-> FALSE, task |-> NoTask])]
           r2 == IF r1.currentIndex < Len(r1.chunks) THEN dispatch(r1, i + 1) ELSE r1
       IN initLoop(r2, i + 1, workerCount)
  ELSE rn

\* Variant: one worker per unit of hardware concurrency, whatever the chunks.
workerCountUncapped(hc, chunks) == OrElse(hc, 4)

workerCount(hc, chunks) == Min(OrElse(hc, 4), Len(chunks))

\* multiThreadHash: the promise executor.
multiThreadHash(fileIdx, chunks, fileName, inBatch, hc) ==
  initLoop([IdleRunner EXCEPT !.kind = "multi", !.inBatch = inBatch, !.file = fileIdx,
                              !.fileName = fileName, !.chunks = chunks],
           0, workerCount(hc, chunks))

\* What the worker script can post for the task {index, url}: the buffer, or
\* the message of the error it caught (which may be the empty string).
ErrorMessages == {"Failed to fetch", ""}

workerReplies(index, chunk) ==
  {[index |-> index, hasBuffer |-> TRUE, buffer |-> arrayBuffer(chunk), error |-> ""]}
  \cup {[index |-> index, hasBuffer |-> FALSE, buffer |-> NoBuffer, error |-> m] :
          m \in ErrorMessages}

\* Variant: the delivering worker is released even when chunks remain.
handleMessageNoRefill(rn, w, data) ==
  LET r0 == [rn EXCEPT !.lastIndex = data.index]
  IN
  IF data.error # ""
  THEN reject([r0 EXCEPT !.workers = terminateAll(@)], ChunkError(data.error))
  ELSE IF ~data.hasBuffer
  THEN reject([r0 EXCEPT !.workers = terminateAll(@)], EmptyChunkError(data.index))
  ELSE LET r1 == append(r0, data.buffer)
           r2 == [r1 EXCEPT !.processedChunks = @ + 1]
           r3 == onProgress(r2, r2.processedChunks)
           r4 == [r3 EXCEPT !.workers[w].terminated = TRUE]
       IN IF r4.processedChunks = Len(r4.chunks)
          THEN finish([r4 EXCEPT !.workers = terminateAll(@)])
          ELSE r4

\* Variant: completion is detected one chunk early.
handleMessageEarlyFinish(rn, w, data) ==
  LET r0 == [rn EXCEPT !.lastIndex = data.index]
  IN
  IF data.error # ""
  THEN reject([r0 EXCEPT !.workers = terminateAll(@)], ChunkError(data.error))
  ELSE IF ~data.hasBuffer
  THEN reject([r0 EXCEPT !.workers = terminateAll(@)], EmptyChunkError(data.index))
  ELSE LET r1 == append(r0, data.buffer)
           r2 == [r1 EXCEPT !.processedChunks = @ + 1]
           r3 == onProgress(r2, r2.processedChunks)
           r4 == IF r3.currentIndex < Len(r3.chunks) THEN dispatch(r3, w)
                 ELSE [r3 EXCEPT !.workers[w].terminated = TRUE]
       IN IF r4.processedChunks >= Len(r4.chunks) - 1
          THEN finish([r4 EXCEPT !.workers = terminateAll(@)])
          ELSE r4

\* handleMessage(worker)(e) with e.data = data; lastIndex keeps the index
\* destructured from the message.
handleMessage(rn, w, data) ==
  LET r0 == [rn EXCEPT !.lastIndex = data.index]
  IN
  IF data.error # ""
  THEN reject([r0 EXCEPT !.workers = terminateAll(@)], ChunkError(data.error))
  ELSE IF ~data.hasBuffer
  THEN reject([r0 EXCEPT !.workers = terminateAll(@)], EmptyChunkError(data.index))
  ELSE LET r1 == append(r0, data.buffer)
           r2 == [r1 EXCEPT !.processedChunks = @ + 1]
           r3 == onProgress(r2, r2.processedChunks)
           r4 == IF r3.currentIndex < Len(r3.chunks) THEN dispatch(r3, w)
                 ELSE [r3 EXCEPT !.workers[w].terminated = TRUE]
       IN IF r4.processedChunks = Len(r4.chunks)
          THEN finish([r4 EXCEPT !.workers = terminateAll(@)])
          ELSE r4

\* worker.onerror
onerror(rn, message) ==
  reject([rn EXCEPT !.workers = terminateAll(@)], WorkerError(message))

\* Variant: a strict comparison.
useWorkersStrict(file, opts) ==
  file.size > Default(opts.useWorkerThreshold, DefaultUseWorkerThreshold)

\* file.size >= useWorkerThreshold, with the option's default.
useWorkers(file, opts) ==
  file.size >= Default(opts.useWorkerThreshold, DefaultUseWorkerThreshold)

\* calculateHash: chunk the file and pick the runner.
calculateHash(fileIdx, file, opts, inBatch, hc) ==
  LET chunkSize == Default(opts.chunkSize, DefaultChunkSize)
      chunks == createChunks(fileIdx, file, chunkSize)
  IN IF useWorkers(file, opts)
     THEN multiThreadHash(fileIdx, chunks, file.name, inBatch, hc)
     ELSE singleThreadHash(fileIdx, chunks, file.name, inBatch)

\* ------------------------------------------------------- calculateAllHashes
\* Math.min(options.maxConcurrency || 4, navigator.hardwareConcurrency || 4)
maxConcurrency(opts, hc) == Min(OrElse(opts.maxConcurrency, 4), OrElse(hc, 4))

RECURSIVE sumChunks(_, _, _)
sumChunks(fs, opts, k) ==
  IF k > Len(fs) THEN 0
  ELSE Ceil(fs[k].size, OrElse(opts.chunkSize, DefaultChunkSize)) + sumChunks(fs, opts, k + 1)

\* files.reduce((sum, file) => sum + Math.ceil(file.size / (chunkSize || 10 MiB)), 0)
computeTotalChunks(fs, opts) == sumChunks(fs, opts, 1)

PendingTask == [settled |-> FALSE, success |-> FALSE, hash |-> NoDigest, error |-> NoError,
                thrown |-> FALSE]

\* Variant: no try/catch, a rejection of processFile rejects the task.
taskWrapperNoCatch(rn) ==
  IF rn.promise = "resolved"
  THEN [settled |-> TRUE, success |-> TRUE, hash |-> rn.digest, error |-> NoError,
        thrown |-> FALSE]
  ELSE [settled |-> TRUE, success |-> FALSE, hash |-> NoDigest, error |-> rn.error,
        thrown |-> TRUE]

\* The async function handed to the limiter: try { await processFile } catch.
taskWrapper(rn) ==
  IF rn.promise = "resolved"
  THEN [settled |-> TRUE, success |-> TRUE, hash |-> rn.digest, error |-> NoError,
        thrown |-> FALSE]
  ELSE [settled |-> TRUE, success |-> FALSE, hash |-> NoDigest, error |-> rn.error,
        thrown |-> FALSE]

\* Variant: values collected in the order the promises settled.
promiseAllByCompletion(ts, order) == [k \in 1..Len(ts) |-> ts[order[k]]]

\* Promise.all: the value array is indexed by the position of the promise.
promiseAll(ts, order) == [k \in 1..Len(ts) |-> ts[k]]

\* Variant: the failure branch leaves error undefined.
toHashResultDropError(result, file) ==
  IF result.success
  THEN [name |-> file.name, hash |-> result.hash, error |-> NoError]
  ELSE [name |-> file.name, hash |-> NoDigest, error |-> NoError]

\* results.map((result, index) => HashResult); null is NoDigest, undefined is NoError.
toHashResult(result, file) ==
  IF result.success
  THEN [name |-> file.name, hash |-> result.hash, error |-> NoError]
  ELSE [name |-> file.name, hash |-> NoDigest, error |-> result.error]

\* The scheduler state threaded through the promise continuations of a step.
SchedulerState ==
  [limiter |-> limiter, run |-> run, tasks |-> tasks,
   settleOrder |-> settleOrder, startOrder |-> startOrder]

\* p-limit: run(fn) starts a task, next() runs when a task has settled.  A
\* task whose calculateHash settles without suspending (no chunks on the
\* sequential path) frees its slot within the same step.
RECURSIVE limiterRun(_, _), limiterNext(_), taskSettled(_, _)
limiterRun(st, j) ==
  LET rn == calculateHash(j, files[j], options, TRUE, hardwareConcurrency)
      s1 == [st EXCEPT !.limiter.activeCount = @ + 1, !.run[j] = rn,
                       !.startOrder = Append(@, j)]
  IN IF rn.promise # "pending" THEN taskSettled(s1, j) ELSE s1

limiterNext(st) ==
  LET s1 == [st EXCEPT !.limiter.activeCount = @ - 1]
  IN IF s1.limiter.queue # <<>>
     THEN limiterRun([s1 EXCEPT !.limiter.queue = Tail(@)], Head(s1.limiter.queue))
     ELSE s1

\* Variant: a failed task also tears down the workers of every other file.
taskSettledCancelOthers(st, j) ==
  limiterNext([st EXCEPT !.tasks[j] = taskWrapper(st.run[j]),
                         !.settleOrder = Append(@, j),
                         !.run = IF st.run[j].promise = "rejected"
                                 THEN [k \in 1..Len(@) |-> [@[k] EXCEPT !.workers = terminateAll(@)]]
                                 ELSE @])

taskSettled(st, j) ==
  limiterNext([st EXCEPT !.tasks[j] = taskWrapper(st.run[j]),
                         !.settleOrder = Append(@, j)])

\* Variant: the head of the queue starts whether or not a slot is free.
limiterTryStartUnbounded(st, concurrency) ==
  IF st.limiter.queue # <<>>
  THEN limiterRun([st EXCEPT !.limiter.queue = Tail(@)], Head(st.limiter.queue))
  ELSE st

\* Variant: the most recently queued task starts first.
limiterTryStartLast(st, concurrency) ==
  IF st.limiter.activeCount < concurrency /\ st.limiter.queue # <<>>
  THEN limiterRun([st EXCEPT !.limiter.queue = SubSeq(@, 1, Len(@) - 1)],
                  st.limiter.queue[Len(st.limiter.queue)])
  ELSE st

\* p-limit: after an enqueue, start the head of the queue if a slot is free.
limiterTryStart(st, concurrency) ==
  IF st.limiter.activeCount < concurrency /\ st.limiter.queue # <<>>
  THEN limiterRun([st EXCEPT !.limiter.queue = Tail(@)], Head(st.limiter.queue))
  ELSE st

RECURSIVE limiterStartAll(_, _, _)
limiterStartAll(st, concurrency, k) ==
  IF k = 0 THEN st
  ELSE limiterStartAll(limiterTryStart(st, concurrency), concurrency, k - 1)

\* await Promise.all(tasks), then the result mapping.
awaitAll(st) ==
  IF \E k \in 1..Len(st.tasks) : st.tasks[k].thrown
  THEN [promise |-> [state |-> "rejected", error |-> "Error"], results |-> <<>>]
  ELSE IF \A k \in 1..Len(st.tasks) : st.tasks[k].settled
  THEN [promise |-> [state |-> "resolved", error |-> "none"],
        results |-> LET rs == promiseAll(st.tasks, st.settleOrder)
                    IN [k \in 1..Len(rs) |-> toHashResult(rs[k], files[k])]]
  ELSE [promise |-> [state |-> "pending", error |-> "none"], results |-> <<>>]

\* The onProgress callback processFile passes to calculateHash.
processFileProgress(ps, name, progress) ==
  LET prev == ps.progressMap[name]
      total == ps.totalProcessedChunks + (progress.current - prev)
  IN [progressMap |-> [ps.progressMap EXCEPT ![name] = progress.current],
      totalProcessedChunks |-> total,
      fileLog |-> Append(ps.fileLog, [name |-> progress.name, current |-> progress.current,
                                      total |-> progress.total, percent |-> progress.percent,
                                      file |-> name]),
      totalLog |-> Append(ps.totalLog, [current |-> total, total |-> totalChunks,
                                        percent |-> toFixed1(total, totalChunks)])]

ProgressState ==
  [progressMap |-> progressMap, totalProcessedChunks |-> totalProcessedChunks,
   fileLog |-> fileLog, totalLog |-> totalLog]

SetScheduler(st) ==
  /\ run' = st.run
  /\ limiter' = st.limiter
  /\ tasks' = st.tasks
  /\ settleOrder' = st.settleOrder
  /\ startOrder' = st.startOrder
  /\ LET all == awaitAll(st)
     IN batchPromise' = all.promise /\ results' = all.results

SetProgress(ps) ==
  /\ progressMap' = ps.progressMap
  /\ totalProcessedChunks' = ps.totalProcessedChunks
  /\ fileLog' = ps.fileLog
  /\ totalLog' = ps.totalLog

\* The effect of one event handler of runner r that leaves the runner as rn:
\* the progress callback it invoked and the continuations of its promise.
Commit(r, rn) ==
  IF ~rn.inBatch
  THEN /\ run' = [run EXCEPT ![r] = rn]
       /\ UNCHANGED <<schedulerVars, progressVars>>
  ELSE /\ IF Len(rn.events) > Len(run[r].events)
          THEN SetProgress(processFileProgress(ProgressState, files[r].name,
                                               rn.events[Len(rn.events)]))
          ELSE UNCHANGED progressVars
       /\ LET s1 == [SchedulerState EXCEPT !.run[r] = rn]
          IN IF run[r].promise = "pending" /\ rn.promise # "pending"
             THEN SetScheduler(taskSettled(s1, r))
             ELSE SetScheduler(s1)

\* ------------------------------------------------------------------ actions
Runners == 1..Len(run)

\* reader.onload of the outstanding read of a sequential runner.
ReaderLoad(r) ==
  /\ run[r].kind = "single"
  /\ run[r].reader = "loading"
  /\ Commit(r, onload(run[r]))
  /\ UNCHANGED <<inputVars, totalChunks>>

\* The outstanding read of a sequential runner fails.
ReaderError(r) ==
  /\ run[r].kind = "single"
  /\ run[r].reader = "loading"
  /\ Commit(r, onreaderror(run[r]))
  /\ UNCHANGED <<inputVars, totalChunks>>

\* A live worker holding a task.  terminate() discards whatever the worker
\* has posted and not yet delivered, so a terminated worker fires no event.
Busy(r, w) ==
  /\ run[r].kind = "multi"
  /\ w \in 1..Len(run[r].workers)
  /\ ~run[r].workers[w].terminated
  /\ run[r].workers[w].task # NoTask

\* worker.onmessage: worker w of runner r answers its outstanding task.
WorkerMessage(r, w) ==
  /\ Busy(r, w)
  /\ \E data \in workerReplies(run[r].workers[w].task,
                               run[r].chunks[run[r].workers[w].task + 1]) :
       Commit(r, handleMessage(run[r], w, data))
  /\ UNCHANGED <<inputVars, totalChunks>>

\* worker.onerror: worker w of runner r faults.
WorkerFault(r, w) ==
  /\ Busy(r, w)
  /\ Commit(r, onerror(run[r], "Uncaught"))
  /\ UNCHANGED <<inputVars, totalChunks>>

\* Variant: only the array check.
validInputArrayOnly(isArr, fs) == isArr

\* The parameter check: Array.isArray(files) and every element instanceof File.
validInput(isArr, fs) == isArr /\ ~(\E k \in 1..Len(fs) : ~fs[k].isFile)

\* calculateAllHashes(files, options) up to its await.
CallCalculateAllHashes ==
  /\ batchPromise.state = "idle"
  /\ IF ~validInput(isArray, files)
     THEN /\ batchPromise' = [state |-> "rejected", error |-> "TypeError"]
          /\ UNCHANGED <<run, results, limiter, tasks, settleOrder, startOrder, totalChunks>>
     ELSE /\ totalChunks' = computeTotalChunks(files, options)
          /\ LET s0 == [SchedulerState EXCEPT
                          !.limiter.queue = [k \in 1..Len(files) |-> k]]
             IN SetScheduler(limiterStartAll(s0, maxConcurrency(options, hardwareConcurrency),
                                             Len(files)))
  /\ UNCHANGED <<inputVars, progressVars>>

\* A direct call singleThreadHash(createChunks(file, chunkSize), name, onProgress).
CallSingleThreadHash ==
  /\ run[1].kind = "none"
  /\ run' = [run EXCEPT ![1] = singleThreadHash(1,
                 createChunks(1, files[1], options.chunkSize), files[1].name, FALSE)]
  /\ UNCHANGED <<inputVars, schedulerVars, progressVars, totalChunks>>

\* A direct call multiThreadHash(createChunks(file, chunkSize), name, onProgress).
CallMultiThreadHash ==
  /\ run[2].kind = "none"
  /\ run' = [run EXCEPT ![2] = multiThreadHash(2,
                 createChunks(1, files[1], options.chunkSize), files[1].name, FALSE,
                 hardwareConcurrency)]
  /\ UNCHANGED <<inputVars, schedulerVars, progressVars, totalChunks>>

\* ------------------------------------------------------------ initial states
Optional(S) == {undefined} \cup S

InputFiles == UNION {[1..n -> Files \cup {NotAFile}] : n \in 0..MaxFiles}

\* Names are introduced in a fixed order: file k is named after an earlier
\* file or takes the next unused name.
CanonicalNames(fs) ==
  \A k \in 1..Len(fs) :
    fs[k].isFile /\ fs[k].name = "b" => \E j \in 1..(k - 1) : fs[j].isFile /\ fs[j].name = "a"

InitScheduler ==
  /\ batchPromise = [state |-> "idle", error |-> "none"]
  /\ results = <<>>
  /\ limiter = [queue |-> <<>>, activeCount |-> 0]
  /\ settleOrder = <<>>
  /\ startOrder = <<>>
  /\ progressMap = [n \in FileNames |-> 0]
  /\ totalProcessedChunks = 0
  /\ totalChunks = 0
  /\ fileLog = <<>>
  /\ totalLog = <<>>

\* Before a call of calculateAllHashes(files, options).
Init ==
  /\ isArray \in BOOLEAN
  /\ files \in InputFiles
  /\ ~isArray => files = <<>>
  /\ CanonicalNames(files)
  /\ options \in [chunkSize : Optional({1}),
                  useWorkerThreshold : Optional({0, 1}),
                  maxConcurrency : Optional({0, 1})]
  /\ computeTotalChunks(files, options) <= MaxBatchChunks
  /\ hardwareConcurrency \in {0, 1}
  /\ run = [k \in 1..Len(files) |-> IdleRunner]
  /\ tasks = [k \in 1..Len(files) |-> PendingTask]
  /\ InitScheduler

\* Before direct calls of singleThreadHash (runner 1) and multiThreadHash
\* (runner 2) on the chunks of one source.
InitRunners ==
  /\ isArray = TRUE
  /\ files \in [1..1 -> [isFile : {TRUE}, name : {"a"}, size : 0..MaxDirectSize]]
  /\ options \in [chunkSize : {1, 2}, useWorkerThreshold : {undefined},
                  maxConcurrency : {undefined}]
  /\ hardwareConcurrency \in 0..MaxDirectHardwareConcurrency
  /\ run = <<IdleRunner, IdleRunner>>
  /\ tasks = <<>>
  /\ InitScheduler

Next ==
  \/ CallCalculateAllHashes
  \/ \E r \in Runners : ReaderLoad(r)
  \/ \E r \in Runners : ReaderError(r)
  \/ \E r \in Runners : \E w \in 1..Len(run[r].workers) : WorkerMessage(r, w)
  \/ \E r \in Runners : \E w \in 1..Len(run[r].workers) : WorkerFault(r, w)

NextRunners ==
  \/ CallSingleThreadHash
  \/ CallMultiThreadHash
  \/ \E r \in Runners : ReaderLoad(r)
  \/ \E r \in Runners : ReaderError(r)
  \/ \E r \in Runners : \E w \in 1..Len(run[r].workers) : WorkerMessage(r, w)
  \/ \E r \in Runners : \E w \in 1..Len(run[r].workers) : WorkerFault(r, w)

Spec == Init /\ [][Next]_vars

RunnerSpec == InitRunners /\ [][NextRunners]_vars

\* ------------------------------------------------------------------ claims
Multi(r) == run[r].kind = "multi"

InOrder(chunks) == [k \in 1..Len(chunks) |-> arrayBuffer(chunks[k])]

\* C1: whenever multiThreadHash resolves, the buffers appended to the
\* accumulator are chunk 0, chunk 1, ..., chunk N-1 in ascending index order.
C1_AppendedInIndexOrder ==
  \A r \in Runners :
    Multi(r) /\ run[r].promise = "resolved" => run[r].appended = InOrder(run[r].chunks)

\* C2: on the same chunks multiThreadHash (runner 2) resolves with the same
\* digest as singleThreadHash (runner 1), for every completion order.
C2_SameDigestAsSequential ==
  run[1].promise = "resolved" /\ run[2].promise = "resolved"
    => run[2].digest = run[1].digest

\* C8: a step of a parallel runner that handles an error message, a message
\* without buffer or a worker fault (any handler step that appends nothing)
\* terminates every worker of the pool and rejects the promise without
\* finalizing the accumulator; once rejected, the runner never changes again
\* (no append, no finalization, no digest).
C8_FailureAbortsRunner ==
  [][\A r \in Runners :
       Multi(r) =>
         /\ (run'[r] # run[r] /\ Len(run'[r].appended) = Len(run[r].appended))
              => /\ run'[r].promise = "rejected"
                 /\ \A w \in 1..Len(run'[r].workers) : run'[r].workers[w].terminated
                 /\ run'[r].ended = 0
                 /\ run'[r].digest = NoDigest
         /\ run[r].promise = "rejected" => run'[r] = run[r]]_vars

\* A runner rejected after folding a chunk while, besides the failing task,
\* another task was still in flight.
C8_Witness ==
  \E r \in Runners :
    /\ Multi(r)
    /\ run[r].promise = "rejected"
    /\ run[r].processedChunks >= 1
    /\ run[r].currentIndex >= run[r].processedChunks + 2

\* C9: when multiThreadHash rejects because a worker reported an error or
\* returned no buffer for a chunk, the rejection error carries the index of
\* that chunk.
C9_RejectionNamesChunk ==
  \A r \in Runners :
    Multi(r) /\ run[r].promise = "rejected"
             /\ run[r].error.kind \in {"ChunkProcessingError", "EmptyChunkData"}
      => run[r].error.index = run[r].lastIndex

\* C10: for either runner on N >= 1 chunks there is one progress event per
\* folded chunk, the k-th has current = k and total = N; current = N is
\* reported only by the step that returns the digest, which has then emitted
\* exactly N events, the last one with percent "100.0".
C10_ProgressSequence ==
  \A r \in Runners :
    LET rn == run[r]
        N == Len(rn.chunks)
    IN rn.kind \in {"single", "multi"} =>
         /\ Len(rn.events) <= N
         /\ Len(rn.events) = Len(rn.appended)
         /\ \A k \in 1..Len(rn.events) :
              rn.events[k].current = k /\ rn.events[k].total = N
         /\ rn.promise # "resolved" /\ N >= 1 => Len(rn.events) < N
         /\ rn.promise = "resolved" /\ N >= 1
              => Len(rn.events) = N /\ rn.events[N].percent = 1000

\* Both runners have returned the digest of a source of at least three chunks.
C10_Witness ==
  /\ Len(run) = 2
  /\ run[1].kind = "single" /\ run[1].promise = "resolved"
  /\ run[2].kind = "multi" /\ run[2].promise = "resolved"
  /\ Len(run[1].chunks) >= 3
  /\ ~run[1].inBatch

\* C3: calculateAllHashes resolves with one HashResult per input file, and
\* result i has the name of file i and the outcome of the hashing of file i.
C3_ResultsInInputOrder ==
  batchPromise.state = "resolved" =>
    /\ Len(results) = Len(files)
    /\ \A i \in 1..Len(files) :
         /\ results[i].name = files[i].name
         /\ run[i].kind # "none" /\ run[i].file = i
         /\ run[i].promise \in {"resolved", "rejected"}
         /\ run[i].promise = "resolved"
              => results[i].hash = run[i].digest /\ results[i].error = NoError
         /\ run[i].promise = "rejected"
              => results[i].hash = NoDigest /\ results[i].error = run[i].error

\* The second file settled before the first, with another outcome and name.
C3_Witness ==
  /\ batchPromise.state = "resolved"
  /\ Len(files) = 2
  /\ settleOrder = <<2, 1>>
  /\ files[1].name # files[2].name
  /\ results[1].hash # results[2].hash

\* The digests calculateHash can return for file j called on its own: the
\* digest of the file's bytes on the sequential path; on the parallel path the
\* digest of its chunks in any order the pool can deliver (the chunk folded
\* p-th is one of the first workerCount + p - 1 chunks).
Orders(N, pool) ==
  {f \in [1..N -> 0..(N - 1)] :
     /\ \A p, q \in 1..N : p # q => f[p] # f[q]
     /\ \A p \in 1..N : f[p] <= pool + p - 2}

RECURSIVE BytesInOrder(_, _, _)
BytesInOrder(chunks, f, n) ==
  IF n = 0 THEN <<>>
  ELSE sparkAppend(BytesInOrder(chunks, f, n - 1), arrayBuffer(chunks[f[n] + 1]))

AloneDigests(j) ==
  LET chunks == createChunks(j, files[j], Default(options.chunkSize, DefaultChunkSize))
      N == Len(chunks)
      pool == Min(OrElse(hardwareConcurrency, 4), N)
  IN IF run[j].kind = "single"
     THEN {sparkEnd(BytesInOrder(chunks, [p \in 1..N |-> p - 1], N))}
     ELSE {sparkEnd(BytesInOrder(chunks, f, N)) : f \in Orders(N, pool)}

InFlight == {i \in Runners : run[i].inBatch /\ run[i].kind # "none" /\ run[i].promise = "pending"}

ConcurrencyBound ==
  LET mc == IF options.maxConcurrency = undefined \/ options.maxConcurrency = 0
            THEN 4 ELSE options.maxConcurrency
      ap == IF hardwareConcurrency = 0 THEN 4 ELSE hardwareConcurrency
  IN IF mc <= ap THEN mc ELSE ap

InvalidInput == ~isArray \/ \E k \in 1..Len(files) : ~files[k].isFile

\* C6: called with a non-array or with an element that is not a File,
\* calculateAllHashes rejects with a TypeError and has dispatched nothing: no
\* calculateHash invocation, no worker, no progress event.
C6_InvalidInputFailsFast ==
  InvalidInput /\ batchPromise.state # "idle" =>
    /\ batchPromise = [state |-> "rejected", error |-> "TypeError"]
    /\ \A r \in Runners : run[r].kind = "none" /\ run[r].workers = <<>> /\ run[r].events = <<>>
    /\ startOrder = <<>>
    /\ limiter.activeCount = 0
    /\ fileLog = <<>> /\ totalLog = <<>>
    /\ results = <<>>

\* Rejected for an array holding a non-empty File and a non-File.
C6_Witness ==
  /\ batchPromise.state = "rejected"
  /\ isArray
  /\ Len(files) = 2
  /\ files[1].isFile /\ files[1].size > 0 /\ ~files[2].isFile

Threshold ==
  IF options.useWorkerThreshold = undefined THEN 10485760 ELSE options.useWorkerThreshold

LastReported(i) ==
  IF run[i].events = <<>> THEN 0 ELSE run[i].events[Len(run[i].events)].current

RECURSIVE SumLastReported(_)
SumLastReported(n) == IF n = 0 THEN 0 ELSE LastReported(n) + SumLastReported(n - 1)

\* C11: in calculateAllHashes the running global processed-chunk total equals
\* the sum over the files of the batch of the current each file reported
\* last, whether or not file names are distinct.
C11_TotalIsSumOfFiles ==
  batchPromise.state \in {"pending", "resolved"} =>
    totalProcessedChunks = SumLastReported(Len(files))

\* The started runners of the direct calls work on createChunks(file, chunkSize).
RECURSIVE Concat(_, _)
Concat(chunks, n) ==
  IF n = 0 THEN <<>> ELSE sparkAppend(Concat(chunks, n - 1), arrayBuffer(chunks[n]))

\* C12: createChunks(file, chunkSize) returns ceil(size / chunkSize) chunks
\* (none for size 0); chunk k (from 0) is the range
\* [k * chunkSize, min((k + 1) * chunkSize, size)) of the file, so the chunks
\* are non-empty, contiguous, disjoint and concatenate to the file's bytes.
C12_ChunksPartitionSource ==
  \A r \in Runners :
    run[r].kind # "none" /\ ~run[r].inBatch =>
      LET chunks == run[r].chunks
          N == Len(chunks)
          size == files[1].size
          cs == options.chunkSize
      IN /\ N * cs >= size
         /\ (N - 1) * cs < size \/ N = 0
         /\ size = 0 => N = 0
         /\ \A k \in 1..N :
              /\ chunks[k].start = (k - 1) * cs
              /\ chunks[k].end = (IF k * cs <= size THEN k * cs ELSE size)
              /\ chunks[k].start < chunks[k].end
              /\ chunks[k].fileId = files[1].name
              /\ k < N => chunks[k].end = chunks[k + 1].start
         /\ Concat(chunks, N) = (IF size = 0 THEN <<>>
                                 ELSE <<[file |-> chunks[1].file, from |-> 0, to |-> size]>>)

\* A source of three bytes cut with chunkSize 2: a full and a partial chunk.
C12_Witness ==
  /\ run[1].kind = "single" /\ ~run[1].inBatch
  /\ files[1].size = 3 /\ options.chunkSize = 2
  /\ Len(run[1].chunks) = 2
  /\ run[1].chunks[2].end - run[1].chunks[2].start = 1

\* C13: called on an empty chunk sequence, a digest runner has returned the
\* digest of the empty input and has emitted no progress event.
C13_EmptyInputDigest ==
  \A r \in Runners :
    run[r].kind # "none" /\ run[r].chunks = <<>> =>
      /\ run[r].promise = "resolved"
      /\ run[r].digest = sparkEnd(<<>>)
      /\ run[r].events = <<>>

\* C14: once the read of a chunk has failed, the promise of the runner is
\* rejected: it is neither pending nor resolved with a digest.
C14_ReadFailureRejects ==
  \A r \in Runners :
    (run[r].reader = "failed"
       \/ (Multi(r) /\ run[r].error.kind \in {"ChunkProcessingError", "EmptyChunkData"}))
      => run[r].promise = "rejected"

Outstanding(r) ==
  \/ run[r].reader = "loading"
  \/ \E w \in 1..Len(run[r].workers) :
       ~run[r].workers[w].terminated /\ run[r].workers[w].task # NoTask

\* C15: for valid files the batch promise is pending only while a chunk read
\* or a worker task of some file is still outstanding: when every read and
\* every task has finished, with data or with an error, it has resolved.
C15_PendingOnlyWhileWorkOutstanding ==
  batchPromise.state = "pending" => \E r \in Runners : Outstanding(r)

\* C16: files are admitted in submission order (the k-th admission is file
\* k and the queue holds the remaining files in order), and the number of
\* admissions never exceeds the concurrency bound plus the number of tasks
\* that have settled: a queued file starts only in a slot a settled one freed.
C16_FifoAdmission ==
  batchPromise.state \in {"pending", "resolved"} =>
    LET k == Len(startOrder)
    IN /\ startOrder = [j \in 1..k |-> j]
       /\ limiter.queue = [j \in 1..(Len(files) - k) |-> k + j]
       /\ \A j \in 1..Len(files) : (run[j].kind # "none") <=> j <= k
       /\ k <= ConcurrencyBound + Len(settleOrder)
       /\ \A j \in 1..Len(settleOrder) : settleOrder[j] <= k

\* The second file was admitted after the first, which held the only slot
\* while it read a chunk, had settled.
C16_Witness ==
  /\ ConcurrencyBound = 1
  /\ startOrder = <<1, 2>>
  /\ settleOrder = <<1>>
  /\ Len(run[1].chunks) >= 1
  /\ run[2].promise = "pending"

Ascending(n) == [k \in 1..n |-> k - 1]

\* C17: the dispatch cursor never decreases and never exceeds the chunk
\* count; it advances by exactly one with each posted task, so the indices
\* posted so far are 0, 1, ..., cursor - 1 in this order, each once, and all
\* N of them when the runner has resolved.
C17_CursorMonotone ==
  /\ [](\A r \in Runners :
          Multi(r) =>
            /\ run[r].currentIndex <= Len(run[r].chunks)
            /\ run[r].dispatched = Ascending(run[r].currentIndex)
            /\ run[r].promise = "resolved" => run[r].currentIndex = Len(run[r].chunks))
  /\ [][\A r \in Runners :
          Multi(r) =>
            /\ run'[r].currentIndex >= run[r].currentIndex
            /\ run'[r].currentIndex - run[r].currentIndex
                 = Len(run'[r].dispatched) - Len(run[r].dispatched)
            /\ run'[r].currentIndex - run[r].currentIndex <= 1]_vars

\* A resolved runner whose pool was smaller than its chunk sequence.
C17_Witness ==
  \E r \in Runners :
    /\ Multi(r) /\ run[r].promise = "resolved"
    /\ Len(run[r].workers) = 2 /\ Len(run[r].chunks) = 4
    /\ run[r].dispatched = <<0, 1, 2, 3>>

Live(r) == {w \in 1..Len(run[r].workers) : ~run[r].workers[w].terminated}

Folded(r) ==
  {k \in 0..(Len(run[r].chunks) - 1) :
     \E p \in 1..Len(run[r].appended) : run[r].appended[p] = arrayBuffer(run[r].chunks[k + 1])}

\* C18: multiThreadHash creates min(hardwareConcurrency or 4, chunk count)
\* workers; cursor minus completion counter lies between 0 and the pool
\* size; while the promise is pending the live workers hold pairwise
\* different tasks, which are exactly the posted and not yet folded indices.
C18_PoolAndOutstanding ==
  \A r \in Runners :
    Multi(r) =>
      LET N == Len(run[r].chunks)
          ap == IF hardwareConcurrency = 0 THEN 4 ELSE hardwareConcurrency
          pool == IF ap <= N THEN ap ELSE N
          out == run[r].currentIndex - run[r].processedChunks
      IN /\ Len(run[r].workers) = pool
         /\ 0 <= out /\ out <= pool
         /\ run[r].promise = "pending" =>
              /\ \A v, w \in Live(r) : v # w => run[r].workers[v].task # run[r].workers[w].task
              /\ {run[r].workers[w].task : w \in Live(r)}
                   = (0..(run[r].currentIndex - 1)) \ Folded(r)
              /\ Cardinality(Live(r)) = out

\* Two workers on four chunks, one chunk folded, two tasks outstanding.
C18_Witness ==
  \E r \in Runners :
    /\ Multi(r) /\ run[r].promise = "pending"
    /\ Len(run[r].workers) = 2 /\ Len(run[r].chunks) = 4
    /\ run[r].processedChunks = 1 /\ run[r].currentIndex = 3

\* C19: in a step that folds a result, the worker that delivered it holds
\* the next undispatched chunk afterwards when one remained and is
\* terminated otherwise; a terminated worker never changes again.
C19_RefillOrRelease ==
  [][\A r \in Runners :
       Multi(r) =>
         /\ Len(run'[r].appended) = Len(run[r].appended) + 1 =>
              \E w \in Live(r) :
                /\ run[r].workers[w].task = run'[r].lastIndex
                /\ IF run[r].currentIndex < Len(run[r].chunks)
                   THEN /\ run'[r].workers[w].task = run[r].currentIndex
                        /\ ~run'[r].workers[w].terminated
                        /\ run'[r].currentIndex = run[r].currentIndex + 1
                   ELSE /\ run'[r].workers[w].terminated
                        /\ run'[r].workers[w].task = run[r].workers[w].task
         /\ \A w \in 1..Len(run[r].workers) :
              run[r].workers[w].terminated => run'[r].workers[w] = run[r].workers[w]]_vars

\* One worker was released while another one, refilled before, still works.
C19_Witness ==
  \E r \in Runners :
    /\ Multi(r) /\ run[r].promise = "pending"
    /\ Len(run[r].workers) = 2 /\ Len(run[r].chunks) = 3
    /\ run[r].processedChunks = 2
    /\ Cardinality(Live(r)) = 1

\* C20: a resolved multiThreadHash has completion counter = chunk count, has
\* appended every chunk exactly once, has terminated every worker and has
\* finalized the accumulator exactly once; the accumulator is never
\* finalized otherwise.
C20_ResolvedOnlyWhenComplete ==
  \A r \in Runners :
    Multi(r) =>
      LET N == Len(run[r].chunks)
      IN /\ run[r].ended <= 1
         /\ run[r].ended = 1 <=> run[r].promise = "resolved"
         /\ run[r].promise = "resolved" =>
              /\ run[r].processedChunks = N
              /\ Len(run[r].appended) = N
              /\ Folded(r) = 0..(N - 1)
              /\ Live(r) = {}
              /\ run[r].digest = sparkEnd(run[r].spark)

\* Resolved after the chunks arrived out of index order.
C20_Witness ==
  \E r \in Runners :
    /\ Multi(r) /\ run[r].promise = "resolved"
    /\ Len(run[r].chunks) = 3
    /\ run[r].appended[1] = arrayBuffer(run[r].chunks[2])

Phase(rn) ==
  IF rn.kind = "none" THEN "Idle"
  ELSE IF rn.promise = "resolved" THEN "Completed"
  ELSE IF rn.promise = "rejected" THEN "Failed"
  ELSE IF rn.currentIndex < Len(rn.chunks) THEN "Dispatching"
  ELSE IF \E w \in 1..Len(rn.workers) : ~rn.workers[w].terminated /\ rn.workers[w].task # NoTask
       THEN "Draining"
  ELSE "Stuck"

PhaseRank(ph) ==
  CASE ph = "Idle" -> 0
    [] ph = "Dispatching" -> 1
    [] ph = "Draining" -> 2
    [] OTHER -> 3

\* C21: a multiThreadHash invocation is always Idle, Dispatching (pending,
\* cursor < total), Draining (pending, cursor = total, a completion in
\* flight), Completed or Failed; a step never moves it backwards, Completed
\* is entered from Draining only, and a Completed or Failed runner never
\* changes again (no append, no dispatch, no progress event, same outcome).
C21_RunnerStateMachine ==
  /\ [](Phase(run[2]) \in {"Idle", "Dispatching", "Draining", "Completed", "Failed"})
  /\ [][/\ PhaseRank(Phase(run'[2])) >= PhaseRank(Phase(run[2]))
        /\ Phase(run'[2]) = "Completed" /\ Phase(run[2]) # "Completed"
             => Phase(run[2]) = "Draining"
        /\ Phase(run[2]) \in {"Completed", "Failed"} => run'[2] = run[2]]_vars

\* The same for invocations on at least one chunk.
C21_NonEmptyStateMachine ==
  /\ [](run[2].chunks # <<>> =>
          Phase(run[2]) \in {"Idle", "Dispatching", "Draining", "Completed", "Failed"})
  /\ [][/\ PhaseRank(Phase(run'[2])) >= PhaseRank(Phase(run[2]))
        /\ Phase(run'[2]) = "Completed" /\ Phase(run[2]) # "Completed"
             => Phase(run[2]) = "Draining"
        /\ Phase(run[2]) \in {"Completed", "Failed"} => run'[2] = run[2]]_vars

\* Every task posted to a worker of the parallel runner is answered at some
\* time: by a message or by a fault.
RunnerFairSpec ==
  RunnerSpec /\ WF_vars(\E w \in 1..Len(run[2].workers) : WorkerMessage(2, w) \/ WorkerFault(2, w))

\* C22: when every posted task is answered, a multiThreadHash invocation on
\* at least one chunk eventually resolves or rejects; while it is pending
\* some live worker holds a task that has not been answered yet.
C22_AnsweredTasksSettle ==
  /\ [](Multi(2) /\ run[2].chunks # <<>> /\ run[2].promise = "pending"
          => \E w \in 1..Len(run[2].workers) : Busy(2, w))
  /\ (Multi(2) /\ run[2].chunks # <<>>) ~> (run[2].promise # "pending")

\* Settled after a worker had been refilled: four chunks on two workers.
C22_Witness ==
  /\ Multi(2) /\ run[2].promise = "resolved"
  /\ Len(run[2].chunks) = 4 /\ Len(run[2].workers) = 2
  /\ run[2].processedChunks = 4

\* C23: in a batch, the step in which a parallel runner fails terminates
\* all workers of that runner and leaves the workers, cursor, completion
\* counter and accumulator of every other started runner as they were; an
\* accumulator only ever holds buffers of chunks of its own file.
C23_FailureStaysInItsFile ==
  /\ [](\A r \in Runners : \A p \in 1..Len(run[r].appended) : run[r].appended[p].file = r)
  /\ [][\A r \in Runners :
          Multi(r) /\ run[r].promise = "pending" /\ run'[r].promise = "rejected" =>
            /\ \A w \in 1..Len(run'[r].workers) : run'[r].workers[w].terminated
            /\ \A j \in Runners \ {r} :
                 run[j].kind # "none" =>
                   /\ run'[j].workers = run[j].workers
                   /\ run'[j].currentIndex = run[j].currentIndex
                   /\ run'[j].processedChunks = run[j].processedChunks
                   /\ run'[j].spark = run[j].spark
                   /\ run'[j].appended = run[j].appended]_vars

\* Two files hashed concurrently by parallel runners: the first has failed,
\* the second has folded a chunk and still has a worker at work.
C23_Witness ==
  /\ Len(files) = 2 /\ ConcurrencyBound >= 2
  /\ Multi(1) /\ run[1].promise = "rejected"
  /\ Multi(2) /\ run[2].promise = "pending"
  /\ run[2].processedChunks >= 1
  /\ \E w \in 1..Len(run[2].workers) : Busy(2, w)

Single(r) == run[r].kind = "single"

\* C24: in singleThreadHash the reads are started for chunk 0, 1, 2, ... one
\* at a time; when the read of chunk i is outstanding (or has failed)
\* exactly chunks 0..i-1 have been appended, in this order, and exactly the
\* events current = 1..i have been emitted; a step that appends chunk i
\* emits the event current = i+1 before any further read starts.
C24_SequentialPipeline ==
  /\ [](\A r \in Runners :
          Single(r) =>
            LET i == run[r].i
                started == Len(run[r].reading)
            IN /\ run[r].reading = Ascending(started)
               /\ started = (IF run[r].reader = "idle" THEN i ELSE i + 1)
               /\ started <= Len(run[r].chunks)
               /\ run[r].appended = SubSeq(InOrder(run[r].chunks), 1, i)
               /\ Len(run[r].events) = i
               /\ \A k \in 1..i : run[r].events[k].current = k)
  /\ [][\A r \in Runners :
          Single(r) =>
            /\ Len(run'[r].reading) <= Len(run[r].reading) + 1
            /\ Len(run'[r].appended) <= Len(run[r].appended) + 1
            /\ Len(run'[r].appended) = Len(run[r].appended) + 1 =>
                 /\ run[r].reader = "loading"
                 /\ Len(run'[r].events) = Len(run[r].events) + 1
                 /\ run'[r].events[Len(run'[r].events)].current = Len(run'[r].appended)]_vars

\* The read of the third chunk is outstanding after two appends and two events.
C24_Witness ==
  \E r \in Runners :
    /\ Single(r) /\ run[r].reader = "loading"
    /\ run[r].reading = <<0, 1, 2>>
    /\ Len(run[r].appended) = 2 /\ Len(run[r].events) = 2

AllSucceeded ==
  /\ batchPromise.state = "resolved"
  /\ \A k \in 1..Len(results) : results[k].hash # NoDigest

\* C25: in calculateAllHashes the current of successive onTotalProgress
\* events never decreases and never exceeds total, total is the precomputed
\* chunk count of the batch, and when every file has succeeded the last
\* event has current = total; file names need not be distinct.
C25_TotalProgressMonotone ==
  /\ \A k \in 1..Len(totalLog) :
       /\ totalLog[k].total = computeTotalChunks(files, options)
       /\ totalLog[k].current <= totalLog[k].total
       /\ k > 1 => totalLog[k - 1].current <= totalLog[k].current
  /\ AllSucceeded /\ totalLog # <<>> =>
       totalLog[Len(totalLog)].current = totalLog[Len(totalLog)].total

DistinctNames == \A j, k \in 1..Len(files) : j # k => files[j].name # files[k].name

\* The same for batches of files with pairwise different names.
C25_DistinctNamesMonotone == DistinctNames => C25_TotalProgressMonotone

IsDigest(h) == h.alg = "md5"

IsError(e) == e.kind \in {"ChunkProcessingError", "EmptyChunkData", "WorkerError"}

\* C26: every HashResult returned by calculateAllHashes either carries the
\* digest its file's hashing resolved with and error undefined, or hash null
\* and the Error its file's hashing rejected with; hash is non-null exactly
\* when error is undefined.
C26_ResultShape ==
  batchPromise.state = "resolved" =>
    /\ Len(results) = Len(files)
    /\ \A k \in 1..Len(results) :
         /\ (results[k].hash # NoDigest) <=> (results[k].error = NoError)
         /\ \/ /\ run[k].promise = "resolved"
               /\ IsDigest(results[k].hash) /\ results[k].hash = run[k].digest
               /\ results[k].error = NoError
            \/ /\ run[k].promise = "rejected"
               /\ results[k].hash = NoDigest
               /\ IsError(results[k].error) /\ results[k].error = run[k].error

\* A resolved batch with one result of each shape.
C26_Witness ==
  /\ batchPromise.state = "resolved"
  /\ Len(results) = 2
  /\ results[1].hash = NoDigest /\ IsError(results[1].error)
  /\ IsDigest(results[2].hash) /\ results[2].error = NoError

====
